---- MODULE Spec2Model ----
(***************************************************************************)
(* The 3D Camera Explorer of ai-native-studio: the camera-explorer store   *)
(* (cameraExplorerStore.js), the page that drives the reconstruction       *)
(* (CameraExplorerPage, handleReconstruct) and the viewer component        *)
(* (GaussianSplatViewer, third revision in the file) with its navigation   *)
(* handlers.                                                               *)
(*                                                                         *)
(* Units.  Positions are integers in thousandths of a scene unit           *)
(* (0.06 -> 60, MOVE_SPEED 0.15 -> 150, padding 0.5 -> 500).  Angles of    *)
(* the THREE camera are integers in milliradians; the rotation kept in the *)
(* store is in tenths of a degree, as updateCameraState rounds it.         *)
(***************************************************************************)
EXTENDS Integers, Sequences, FiniteSets, TLC

\* ------------------------------------------------------------------ bounds
MaxSubmits == 2       \* handleReconstruct invocations per behaviour
MaxSnapshots == 3     \* snapshots captured per behaviour (also bounds ids)
MaxNavSteps == 2      \* navigation inputs (ticks, wheel, drag) per behaviour
MaxKeysHeld == 1      \* movement keys held down at the same time

\* ------------------------------------------------------- program constants
MOVE_SPEED == 150          \* 0.15 scene units per tick
LOOK_SPEED == 3            \* 0.003 rad per pixel
WheelScale == 5            \* 0.005 scene units per wheel delta unit
Padding == 500             \* 0.5 inward padding of the bounding box
PitchLimit == 1257         \* Math.PI / 2.5 rad, in milliradians
PiMrad == 3142             \* Math.PI in milliradians
DegPerRad100k == 57296     \* tenths of a degree per milliradian, times 100000

DEFAULT_LENS == "35mm"

\* null of the store's string fields and of ids / refs
NULL == "null"
NoId == 0

Images == {"img1"}                     \* data URLs a user can drop
Keyframes == <<[id |-> "kf1", url |-> "kfurl1"]>>   \* currentShot.keyframes
ErrMsgs == {"Reconstruction failed"}   \* error.message of a rejected call
Lenses == {"12mm", "24mm", "35mm", "50mm", "85mm", "135mm"}

Vec(a, b, c) == [x |-> a, y |-> b, z |-> c]

\* store defaults of cameraPosition {0,0,5} and cameraRotation {0,0,0}
StoreDefaultPosition == Vec(0, 0, 5000)
StoreDefaultRotation == Vec(0, 0, 0)

VARIABLES
  \* ---- cameraExplorerStore
  reconstructionStatus, reconstructionError, plyUrl,
  sourceKeyframeId, sourceKeyframeUrl,
  cameraPosition, cameraRotation, selectedLens, showGrid, showHUD,
  snapshots, selectedSnapshotId,
  generationStatus, generationError, generatedFrameUrl,
  \* ---- CameraExplorerPage: the handleReconstruct calls made so far, and
  \* the position of the handleGenerateFrame call
  calls, framePc,
  \* ---- generation store (useGenerationStore) and its generate* calls
  activeTasks, taskHistory, taskPc, attempts,
  \* ---- GaussianSplatViewer (the instance mounted while plyUrl is set)
  cameras, cameraRef, sceneBoundsRef, keysPressed, isDragging, isActive,
  loads,
  \* ---- bookkeeping
  idCounter, navSteps, lastOp

sessionVars == <<reconstructionStatus, reconstructionError, plyUrl,
                 sourceKeyframeId, sourceKeyframeUrl>>
cameraStoreVars == <<cameraPosition, cameraRotation>>
overlayVars == <<showGrid, showHUD>>
generationVars == <<generationStatus, generationError, generatedFrameUrl,
                    framePc>>
taskVars == <<activeTasks, taskHistory, taskPc, attempts>>
snapVars == <<snapshots, selectedSnapshotId, idCounter>>
pageVars == <<calls>>
viewerVars == <<cameras, cameraRef, sceneBoundsRef, keysPressed, isDragging,
                isActive, loads>>
vars == <<sessionVars, cameraStoreVars, selectedLens, overlayVars, generationVars, taskVars, snapVars,
          pageVars, viewerVars, navSteps, lastOp>>

\* ------------------------------------------------------------ null values
NoPly == [src |-> NULL, call |-> 0]
NoBounds == [set |-> FALSE, min |-> Vec(0, 0, 0), max |-> Vec(0, 0, 0)]
NoCamera == [position |-> Vec(0, 0, 0), rotation |-> Vec(0, 0, 0), fov |-> 0]
NoSnapshot == [id |-> NoId, thumbnailDataUrl |-> 0, position |-> Vec(0, 0, 0),
               rotation |-> Vec(0, 0, 0), lens |-> NULL]

CallIds == 1..MaxSubmits
SnapshotIds == 1..(MaxSnapshots + 1)   \* ids a caller can pass, one never issued

Op(name, arg) == [op |-> name, arg |-> arg]

\* The asset the reconstruction service returns to call k: a blob URL made
\* for that response, of the scene reconstructed from the call's image.
PlyOf(k) == [src |-> calls[k].src, call |-> k]

\* ------------------------------------------------------------------- Init
MaxTasks == 2         \* generate* calls of the generation store per behaviour
TaskIds == 1..MaxTasks

\* no frame generation and no generation task has been started
GenerationIdle ==
  /\ generationStatus = "idle"
  /\ generationError = NULL
  /\ generatedFrameUrl = NULL
  /\ framePc = "none"
  /\ activeTasks = <<>>
  /\ taskHistory = <<>>
  /\ taskPc = [t \in TaskIds |-> [at |-> "none", type |-> NULL]]
  /\ attempts = [t \in TaskIds |-> 0]

ViewerUnmounted ==
  /\ cameras = [k \in CallIds |-> NoCamera]
  /\ cameraRef = 0
  /\ sceneBoundsRef = NoBounds
  /\ keysPressed = {}
  /\ isDragging = FALSE
  /\ isActive = FALSE
  /\ loads = [k \in CallIds |-> "none"]

Init ==
  /\ reconstructionStatus = "idle"
  /\ reconstructionError = NULL
  /\ plyUrl = NoPly
  /\ sourceKeyframeId = NULL
  /\ sourceKeyframeUrl = NULL
  /\ cameraPosition = StoreDefaultPosition
  /\ cameraRotation = StoreDefaultRotation
  /\ selectedLens = DEFAULT_LENS
  /\ showGrid = FALSE
  /\ showHUD = TRUE
  /\ snapshots = <<>>
  /\ selectedSnapshotId = NoId
  /\ calls = <<>>
  /\ GenerationIdle
  /\ ViewerUnmounted
  /\ idCounter = 0
  /\ navSteps = 0
  /\ lastOp = Op("init", 0)

\* ------------------------------------------- store: reconstruction actions
\* faulty variant: a new submission keeps the snapshots and the selection
setReconstructionProcessing_keepsSnapshots(keyframeId, keyframeUrl) ==
  /\ reconstructionStatus' = "processing"
  /\ reconstructionError' = NULL
  /\ plyUrl' = NoPly
  /\ sourceKeyframeId' = keyframeId
  /\ sourceKeyframeUrl' = keyframeUrl
  /\ cameraPosition' = StoreDefaultPosition
  /\ cameraRotation' = StoreDefaultRotation
  /\ UNCHANGED <<snapshots, selectedSnapshotId>>

setReconstructionProcessing(keyframeId, keyframeUrl) ==
  /\ reconstructionStatus' = "processing"
  /\ reconstructionError' = NULL
  /\ plyUrl' = NoPly
  /\ sourceKeyframeId' = keyframeId
  /\ sourceKeyframeUrl' = keyframeUrl
  /\ cameraPosition' = StoreDefaultPosition
  /\ cameraRotation' = StoreDefaultRotation
  /\ snapshots' = <<>>
  /\ selectedSnapshotId' = NoId

setReconstructionCompleted(ply) ==
  /\ reconstructionStatus' = "completed"
  /\ reconstructionError' = NULL
  /\ plyUrl' = ply

\* faulty variant: a failure leaves the asset reference of an earlier result
setReconstructionError_keepsAsset(error) ==
  /\ reconstructionStatus' = "error"
  /\ reconstructionError' = error
  /\ UNCHANGED plyUrl

setReconstructionError(error) ==
  /\ reconstructionStatus' = "error"
  /\ reconstructionError' = error
  /\ plyUrl' = NoPly

\* faulty variant: the reset leaves the selection pointer where it was
resetReconstruction_keepsSelection ==
  /\ reconstructionStatus' = "idle"
  /\ reconstructionError' = NULL
  /\ plyUrl' = NoPly
  /\ sourceKeyframeId' = NULL
  /\ sourceKeyframeUrl' = NULL
  /\ snapshots' = <<>>
  /\ UNCHANGED selectedSnapshotId

resetReconstruction ==
  /\ reconstructionStatus' = "idle"
  /\ reconstructionError' = NULL
  /\ plyUrl' = NoPly
  /\ sourceKeyframeId' = NULL
  /\ sourceKeyframeUrl' = NULL
  /\ snapshots' = <<>>
  /\ selectedSnapshotId' = NoId

\* ------------------------------------------------ viewer mount / unmount
\* The page renders <GaussianSplatViewer plyUrl=.../> exactly while plyUrl is
\* set.  A change of plyUrl is followed by a render before the next event:
\*   null -> url   a new instance: fresh refs, the init effect starts loadScene
\*   url -> null   the instance unmounts; its refs, timers and pending
\*                 continuations can no longer reach anything that is read
\*   url -> url'   the same instance: the init effect's cleanup runs and the
\*                 effect starts loadScene(url'); refs keep their values and
\*                 the continuations of the earlier loadScene stay pending
RenderViewer ==
  IF plyUrl' = plyUrl
    THEN UNCHANGED viewerVars
    ELSE IF plyUrl' = NoPly
      THEN /\ cameras' = [k \in CallIds |-> NoCamera]
           /\ cameraRef' = 0
           /\ sceneBoundsRef' = NoBounds
           /\ keysPressed' = {}
           /\ isDragging' = FALSE
           /\ isActive' = FALSE
           /\ loads' = [k \in CallIds |-> "none"]
      ELSE /\ loads' = [loads EXCEPT ![plyUrl'.call] = "fetch"]
           /\ UNCHANGED <<cameras, cameraRef, sceneBoundsRef, keysPressed,
                          isDragging, isActive>>

\* ---------------------------------------------- page: handleReconstruct
\* The page's local state (imageSource, droppedImage) and the current shot's
\* keyframes are the handler's inputs.
selectedKeyframe == Keyframes[1]

\* Up to the await.
ReconstructStart(sourceId, sourceUrl) ==
  /\ setReconstructionProcessing(sourceId, sourceUrl)
  /\ calls' = Append(calls, [pc |-> "awaiting", src |-> sourceUrl])
  /\ RenderViewer
  /\ lastOp' = Op("submit", Len(calls) + 1)
  /\ UNCHANGED <<selectedLens, overlayVars, generationVars, taskVars, idCounter, navSteps>>

\* Without a dropped image the 'drop' branch only notifies and returns.
handleReconstruct(imageSource, droppedImage) ==
  /\ Len(calls) < MaxSubmits
  /\ IF imageSource = "drop"
       THEN /\ droppedImage # NULL
            /\ ReconstructStart("dropped-image", droppedImage)
       ELSE ReconstructStart(selectedKeyframe.id, selectedKeyframe.url)

\* hasSourceImage of the page
hasSourceImage(imageSource, droppedImage) ==
  IF imageSource = "drop" THEN droppedImage # NULL ELSE TRUE

\* faulty variant: the button stays enabled while the status is processing
ClickReconstruct_whileProcessing(imageSource, droppedImage) ==
  /\ hasSourceImage(imageSource, droppedImage)
  /\ handleReconstruct(imageSource, droppedImage)

\* The "Reconstruct 3D Scene" button: disabled without a source image and
\* while the status is processing
ClickReconstruct(imageSource, droppedImage) ==
  /\ hasSourceImage(imageSource, droppedImage)
  /\ reconstructionStatus # "processing"
  /\ handleReconstruct(imageSource, droppedImage)

\* The "Retry" button: rendered while the status is error
ClickRetry(imageSource, droppedImage) ==
  /\ reconstructionStatus = "error"
  /\ handleReconstruct(imageSource, droppedImage)

\* The awaited generate3DReconstruction of call k resolves with an asset ...
ReconstructResolved(k) ==
  /\ k \in 1..Len(calls)
  /\ calls[k].pc = "awaiting"
  /\ setReconstructionCompleted(PlyOf(k))
  /\ calls' = [calls EXCEPT ![k].pc = "done"]
  /\ RenderViewer
  /\ lastOp' = Op("complete", k)
  /\ UNCHANGED <<sourceKeyframeId, sourceKeyframeUrl, cameraStoreVars,
                 selectedLens, overlayVars, generationVars, taskVars, snapVars, navSteps>>

\* ... or rejects, and the catch block runs.
ReconstructRejected(k, message) ==
  /\ k \in 1..Len(calls)
  /\ calls[k].pc = "awaiting"
  /\ setReconstructionError(message)
  /\ calls' = [calls EXCEPT ![k].pc = "done"]
  /\ RenderViewer
  /\ lastOp' = Op("fail", k)
  /\ UNCHANGED <<sourceKeyframeId, sourceKeyframeUrl, cameraStoreVars,
                 selectedLens, overlayVars, generationVars, taskVars, snapVars, navSteps>>

\* --------------------------------------------------- viewer: loadScene(k)
\* Bounding boxes of the reconstructed point clouds (scene geometry is input
\* data): a room for the dropped image, and for the keyframe a box narrower
\* than twice the padding on x.
Box(lo, hi) == [min |-> lo, max |-> hi]
BoxOf(src) ==
  IF src = "img1" THEN Box(Vec(-700, 0, -700), Vec(700, 2000, 700))
  ELSE Box(Vec(-300, -1000, -800), Vec(300, 1000, 900))

\* new GaussianSplats3D.Viewer({ initialCameraPosition: [0, 0.06, 0],
\* initialCameraLookAt: [0, 0, 1], cameraUp: [0, -1, 0] }): the library's
\* camera looks down +Z with -Y up, i.e. turned about X by pi + 0.06 rad.
\* The options give no field of view: the camera has the library's default
\* vertical FOV of 50 degrees (in tenths of a degree).
ViewerFov == 500
ViewerCamera ==
  [position |-> Vec(0, 60, 0), rotation |-> Vec(-3082, 0, 0), fov |-> ViewerFov]

\* "original photo orientation": pitch -8.9 deg, yaw 183.7 deg, roll -180 deg
\* in milliradians, at position (0, 0.06, 0)
PhotoPose == [position |-> Vec(0, 60, 0), rotation |-> Vec(-155, 3206, -3142)]

\* camera.rotation.set(pitch, yaw, roll, 'YXZ'); camera.position.set(0, 0.06, 0)
InPhotoPose(camera) ==
  [camera EXCEPT !.position = PhotoPose.position,
                 !.rotation = PhotoPose.rotation]

\* sceneBoundsRef.current = box shrunk by the padding on every side
PaddedBounds(box) ==
  [set |-> TRUE,
   min |-> Vec(box.min.x + Padding, box.min.y + Padding, box.min.z + Padding),
   max |-> Vec(box.max.x - Padding, box.max.y - Padding, box.max.z - Padding)]

viewerFrame == <<sessionVars, cameraStoreVars, selectedLens, overlayVars, generationVars, taskVars,
                 snapVars, pageVars, navSteps>>

\* fetch(plyUrl) and the header check succeed: the viewer is created and the
\* refs point at it
LoadFetched(k) ==
  /\ loads[k] = "fetch"
  /\ cameras' = [cameras EXCEPT ![k] = ViewerCamera]
  /\ cameraRef' = k
  /\ loads' = [loads EXCEPT ![k] = "add"]
  /\ lastOp' = Op("loadFetched", k)
  /\ UNCHANGED <<sceneBoundsRef, keysPressed, isDragging, isActive>>
  /\ UNCHANGED viewerFrame

\* fetch fails, the PLY has 0 vertices, or addSplatScene throws: setLoadError
LoadFailed(k) ==
  /\ loads[k] \in {"fetch", "add"}
  /\ loads' = [loads EXCEPT ![k] = "error"]
  /\ lastOp' = Op("loadFailed", k)
  /\ UNCHANGED <<cameras, cameraRef, sceneBoundsRef, keysPressed, isDragging,
                 isActive>>
  /\ UNCHANGED viewerFrame

\* addSplatScene resolves: viewer.start(), the camera of this viewer is put
\* in the photo pose, the bounds computation is scheduled 300 ms ahead
LoadSceneAdded(k) ==
  /\ loads[k] = "add"
  /\ cameras' = [cameras EXCEPT ![k] = InPhotoPose(@)]
  /\ loads' = [loads EXCEPT ![k] = "timer"]
  /\ lastOp' = Op("loadSceneAdded", k)
  /\ UNCHANGED <<cameraRef, sceneBoundsRef, keysPressed, isDragging, isActive>>
  /\ UNCHANGED viewerFrame

\* the setTimeout callback: computeBoundingBox and store the padded bounds
BoundsTimeout(k) ==
  /\ loads[k] = "timer"
  /\ sceneBoundsRef' = PaddedBounds(BoxOf(calls[k].src))
  /\ loads' = [loads EXCEPT ![k] = "done"]
  /\ lastOp' = Op("boundsTimeout", k)
  /\ UNCHANGED <<cameras, cameraRef, keysPressed, isDragging, isActive>>
  /\ UNCHANGED viewerFrame

\* viewerRef.current, cameraRef.current and viewer.splatMesh are there
Mounted == plyUrl # NoPly
HasCamera == cameraRef # 0
HasSplatMesh == HasCamera /\ loads[cameraRef] \in {"timer", "done"}
Cam == cameras[cameraRef]

\* ---------------------------------------------------- store: snapshots
\* generateId() is crypto.randomUUID(): a value no earlier call returned
generateId == idCounter + 1

\* faulty variant: the new snapshot is put in front of the list
captureSnapshot_prepend(thumbnailDataUrl, cameraState) ==
  LET snapshot == [id |-> generateId,
                   thumbnailDataUrl |-> thumbnailDataUrl,
                   position |-> cameraState.position,
                   rotation |-> cameraState.rotation,
                   lens |-> selectedLens]
  IN /\ snapshots' = <<snapshot>> \o snapshots
     /\ selectedSnapshotId' = snapshot.id
     /\ idCounter' = idCounter + 1

\* createdAt (a wall-clock string) is not used by any reader and is left out
captureSnapshot(thumbnailDataUrl, cameraState) ==
  LET snapshot == [id |-> generateId,
                   thumbnailDataUrl |-> thumbnailDataUrl,
                   position |-> cameraState.position,
                   rotation |-> cameraState.rotation,
                   lens |-> selectedLens]
  IN /\ snapshots' = Append(snapshots, snapshot)
     /\ selectedSnapshotId' = snapshot.id
     /\ idCounter' = idCounter + 1

\* faulty variant: selecting a snapshot re-stamps it with the current lens
selectSnapshot_restamp(snapshotId) ==
  /\ selectedSnapshotId' = snapshotId
  /\ snapshots' = [i \in 1..Len(snapshots) |->
                     IF snapshots[i].id = snapshotId
                       THEN [snapshots[i] EXCEPT !.lens = selectedLens]
                       ELSE snapshots[i]]
  /\ UNCHANGED idCounter

selectSnapshot(snapshotId) ==
  /\ selectedSnapshotId' = snapshotId
  /\ UNCHANGED <<snapshots, idCounter>>

\* faulty variant: deleting the selected snapshot selects the first one left
deleteSnapshot_reselect(snapshotId) ==
  LET rest == SelectSeq(snapshots, LAMBDA s : s.id # snapshotId)
  IN /\ snapshots' = rest
     /\ selectedSnapshotId' =
          IF selectedSnapshotId = snapshotId
            THEN (IF rest = <<>> THEN NoId ELSE rest[1].id)
            ELSE selectedSnapshotId
     /\ UNCHANGED idCounter

deleteSnapshot(snapshotId) ==
  /\ snapshots' = SelectSeq(snapshots, LAMBDA s : s.id # snapshotId)
  /\ selectedSnapshotId' =
       IF selectedSnapshotId = snapshotId THEN NoId ELSE selectedSnapshotId
  /\ UNCHANGED idCounter

clearSnapshots ==
  /\ snapshots' = <<>>
  /\ selectedSnapshotId' = NoId
  /\ UNCHANGED idCounter

\* snapshots.find((s) => s.id === selectedSnapshotId) || null
FindSnapshot(snaps, id) ==
  IF \E i \in 1..Len(snaps) : snaps[i].id = id
    THEN snaps[CHOOSE i \in 1..Len(snaps) :
                 /\ snaps[i].id = id
                 /\ \A j \in 1..(i - 1) : snaps[j].id # id]
    ELSE NoSnapshot
getSelectedSnapshot == FindSnapshot(snapshots, selectedSnapshotId)

snapFrame == <<sessionVars, cameraStoreVars, selectedLens, overlayVars, generationVars, taskVars,
               pageVars, viewerVars, navSteps>>

\* captureView: the Capture button of the page and the space key, both there
\* while the viewer is mounted.  Returns null without a viewer, a camera or a
\* splat mesh.  The thumbnail is the render of the scene of the current viewer.
captureView ==
  /\ Mounted
  /\ IF HasSplatMesh
       THEN /\ idCounter < MaxSnapshots
            /\ captureSnapshot(cameraRef, [position |-> Cam.position,
                                           rotation |-> Cam.rotation])
            /\ lastOp' = Op("capture", generateId)
       ELSE /\ lastOp # Op("captureNull", 0)
            /\ UNCHANGED snapVars
            /\ lastOp' = Op("captureNull", 0)
  /\ UNCHANGED snapFrame

\* faulty variant: the store takes a snapshot only of a completed session
CaptureSnapshot_completedOnly ==
  /\ idCounter < MaxSnapshots
  /\ IF reconstructionStatus = "completed"
       THEN captureSnapshot(0, NoCamera)
       ELSE UNCHANGED snapVars
  /\ lastOp' = Op("storeCapture", generateId)
  /\ UNCHANGED snapFrame

\* captureSnapshot called on the store by any caller, with a camera state of
\* its own and no rendered thumbnail
CaptureSnapshot ==
  /\ idCounter < MaxSnapshots
  /\ captureSnapshot(0, NoCamera)
  /\ lastOp' = Op("storeCapture", generateId)
  /\ UNCHANGED snapFrame

\* SnapshotGrid passes the ids it renders; the store takes any id
SelectSnapshot(snapshotId) ==
  /\ selectSnapshot(snapshotId)
  /\ lastOp' = Op("select", snapshotId)
  /\ UNCHANGED snapFrame

DeleteSnapshot(snapshotId) ==
  /\ deleteSnapshot(snapshotId)
  /\ lastOp' = Op("delete", snapshotId)
  /\ UNCHANGED snapFrame

ClearSnapshots ==
  /\ snapshots # <<>>
  /\ clearSnapshots
  /\ lastOp' = Op("clear", 0)
  /\ UNCHANGED snapFrame

\* ------------------------------------------------------------ arithmetic
Min(a, b) == IF a <= b THEN a ELSE b
Max(a, b) == IF a >= b THEN a ELSE b
Sign(a) == IF a > 0 THEN 1 ELSE IF a < 0 THEN -1 ELSE 0

\* a / b rounded to the nearest integer, halves away from zero (b > 0)
RoundDiv(a, b) ==
  IF a >= 0 THEN (2 * a + b) \div (2 * b) ELSE -((2 * (-a) + b) \div (2 * b))

\* parseFloat(v.toFixed(2)): v in thousandths, rounded to a hundredth
ToFixed2(v) == RoundDiv(v, 10) * 10

\* parseFloat(THREE.MathUtils.radToDeg(r).toFixed(1)): milliradians to
\* tenths of a degree
RadToDegFixed1(r) == RoundDiv(r * DegPerRad100k, 100000)

\* Math.sin and Math.cos times 100, of an angle in milliradians (Bhaskara's
\* rational approximation, exact to about 0.002)
SinHalfTurn(t) ==
  LET p == t * (PiMrad - t)
  IN RoundDiv(1600 * (p \div 10), (5 * PiMrad * PiMrad - 4 * p) \div 10)
Sin100(a) ==
  LET t == a % (2 * PiMrad)
  IN IF t <= PiMrad THEN SinHalfTurn(t) ELSE -SinHalfTurn(t - PiMrad)
Cos100(a) == Sin100(a + PiMrad \div 2)

\* --------------------------------------------------- viewer: navigation
\* faulty variant: the position is returned as it came
clampToSceneBounds_unclamped(position) == position

\* clampToSceneBounds(position)
clampToSceneBounds(position) ==
  LET bounds == sceneBoundsRef
  IN IF ~bounds.set THEN position
     ELSE Vec(Max(bounds.min.x, Min(bounds.max.x, position.x)),
              Max(bounds.min.y, Min(bounds.max.y, position.y)),
              Max(bounds.min.z, Min(bounds.max.z, position.z)))

\* camera.getWorldDirection(forward); forward.y = 0; forward.normalize():
\* the view direction of a YXZ camera is (-cos p sin y, sin p, -cos p cos y),
\* so its horizontal unit vector is sign(cos p) * (-sin y, -cos y), times 100
ForwardDir(rotation) ==
  LET s == Sign(Cos100(rotation.x))
  IN [x |-> -s * Sin100(rotation.y), z |-> -s * Cos100(rotation.y)]

\* right = forward x (0, 1, 0)
RightDir(forward) == [x |-> -forward.z, z |-> forward.x]

\* newPos.addScaledVector(dir, speed), on the horizontal axes
AddScaled(pos, dir, speed) ==
  [pos EXCEPT !.x = @ + RoundDiv(dir.x * speed, 100),
              !.z = @ + RoundDiv(dir.z * speed, 100)]

MoveKeys == {"arrowup", "arrowdown", "arrowleft", "arrowright"}

\* faulty variant: the height is taken from the clamped position as well
MovedPosition_clampedY(camera, keys) ==
  LET forward == ForwardDir(camera.rotation)
      right == RightDir(forward)
      p0 == camera.position
      p1 == IF "arrowup" \in keys THEN AddScaled(p0, forward, MOVE_SPEED) ELSE p0
      p2 == IF "arrowdown" \in keys THEN AddScaled(p1, forward, -MOVE_SPEED) ELSE p1
      p3 == IF "arrowleft" \in keys THEN AddScaled(p2, right, -MOVE_SPEED) ELSE p2
      newPos == IF "arrowright" \in keys THEN AddScaled(p3, right, MOVE_SPEED) ELSE p3
  IN IF keys \cap MoveKeys # {} THEN clampToSceneBounds(newPos) ELSE p0

\* the body of moveCamera for a camera and the keys held: the new position
MovedPosition(camera, keys) ==
  LET forward == ForwardDir(camera.rotation)
      right == RightDir(forward)
      p0 == camera.position
      p1 == IF "arrowup" \in keys THEN AddScaled(p0, forward, MOVE_SPEED) ELSE p0
      p2 == IF "arrowdown" \in keys THEN AddScaled(p1, forward, -MOVE_SPEED) ELSE p1
      p3 == IF "arrowleft" \in keys THEN AddScaled(p2, right, -MOVE_SPEED) ELSE p2
      newPos == IF "arrowright" \in keys THEN AddScaled(p3, right, MOVE_SPEED) ELSE p3
      moved == keys \cap MoveKeys # {}
      clamped == clampToSceneBounds(newPos)
  IN IF moved THEN Vec(clamped.x, p0.y, clamped.z) ELSE p0

\* faulty variant: the pitch follows the drag without a limit
LookedRotation_unclamped(rotation, deltaX, deltaY) ==
  [rotation EXCEPT !.y = @ - deltaX * LOOK_SPEED,
                   !.x = @ - deltaY * LOOK_SPEED]

\* the body of handleMouseMove: yaw and pitch follow the drag, pitch clamped
LookedRotation(rotation, deltaX, deltaY) ==
  LET yaw == rotation.y - deltaX * LOOK_SPEED
      pitch == rotation.x - deltaY * LOOK_SPEED
  IN [rotation EXCEPT !.y = yaw,
                      !.x = Max(-PitchLimit, Min(PitchLimit, pitch))]

\* faulty variant: the height follows the wheel without a floor or ceiling
WheeledY_unclamped(y, deltaY) == y - deltaY * WheelScale

\* the body of handleWheel: the new height
WheeledY(y, deltaY) ==
  LET newY == y - deltaY * WheelScale
      bounds == sceneBoundsRef
  IN IF bounds.set THEN Max(bounds.min.y, Min(bounds.max.y, newY)) ELSE newY

\* pixels dragged between two mousemove events, <<deltaX, deltaY>>
LookDeltas == {<<0, -500>>, <<0, 500>>, <<-500, 0>>}
WheelDeltas == {-100, 100}       \* WheelEvent.deltaY

navFrame == <<sessionVars, cameraStoreVars, selectedLens, overlayVars, generationVars, taskVars,
              snapVars, pageVars>>

handleKeyDown_move(key) ==
  /\ Mounted
  /\ key \notin keysPressed
  /\ Cardinality(keysPressed) < MaxKeysHeld
  /\ keysPressed' = keysPressed \cup {key}
  /\ lastOp' = Op("input", 0)
  /\ UNCHANGED <<cameras, cameraRef, sceneBoundsRef, isDragging, isActive,
                 loads, navSteps>>
  /\ UNCHANGED navFrame

handleKeyUp(key) ==
  /\ Mounted
  /\ key \in keysPressed
  /\ keysPressed' = keysPressed \ {key}
  /\ lastOp' = Op("input", 0)
  /\ UNCHANGED <<cameras, cameraRef, sceneBoundsRef, isDragging, isActive,
                 loads, navSteps>>
  /\ UNCHANGED navFrame

\* one tick of setInterval(moveCamera, 16) with a movement key held
moveCamera ==
  /\ Mounted
  /\ HasCamera
  /\ keysPressed # {}
  /\ navSteps < MaxNavSteps
  /\ cameras' = [cameras EXCEPT ![cameraRef].position =
                                   MovedPosition(Cam, keysPressed)]
  /\ navSteps' = navSteps + 1
  /\ lastOp' = Op("move", 0)
  /\ UNCHANGED <<cameraRef, sceneBoundsRef, keysPressed, isDragging, isActive,
                 loads>>
  /\ UNCHANGED navFrame

\* mousedown inside the container: setIsActive(true), and a drag starts.
\* The mouse effect depends on isActive: activating re-runs it, and the new
\* closure starts with isDragging = false.
handleMouseDown ==
  /\ Mounted
  /\ isActive' = TRUE
  /\ isDragging' = isActive
  /\ lastOp' = Op("input", 0)
  /\ UNCHANGED <<cameras, cameraRef, sceneBoundsRef, keysPressed, loads,
                 navSteps>>
  /\ UNCHANGED navFrame

\* mouseup and mouseleave
handleMouseUp ==
  /\ Mounted
  /\ isDragging
  /\ isDragging' = FALSE
  /\ lastOp' = Op("input", 0)
  /\ UNCHANGED <<cameras, cameraRef, sceneBoundsRef, keysPressed, isActive,
                 loads, navSteps>>
  /\ UNCHANGED navFrame

\* mousedown outside the container: setIsActive(false)
handleClickOutside ==
  /\ Mounted
  /\ isActive
  /\ isActive' = FALSE
  /\ isDragging' = FALSE
  /\ lastOp' = Op("input", 0)
  /\ UNCHANGED <<cameras, cameraRef, sceneBoundsRef, keysPressed, loads,
                 navSteps>>
  /\ UNCHANGED navFrame

handleMouseMove(deltaX, deltaY) ==
  /\ Mounted
  /\ isDragging
  /\ HasCamera
  /\ navSteps < MaxNavSteps
  /\ cameras' = [cameras EXCEPT ![cameraRef].rotation =
                                   LookedRotation(Cam.rotation, deltaX, deltaY)]
  /\ navSteps' = navSteps + 1
  /\ lastOp' = Op("look", 0)
  /\ UNCHANGED <<cameraRef, sceneBoundsRef, keysPressed, isDragging, isActive,
                 loads>>
  /\ UNCHANGED navFrame

handleWheel(deltaY) ==
  /\ Mounted
  /\ isActive
  /\ HasCamera
  /\ navSteps < MaxNavSteps
  /\ cameras' = [cameras EXCEPT ![cameraRef].position.y =
                                   WheeledY(Cam.position.y, deltaY)]
  /\ navSteps' = navSteps + 1
  /\ lastOp' = Op("wheel", 0)
  /\ UNCHANGED <<cameraRef, sceneBoundsRef, keysPressed, isDragging, isActive,
                 loads>>
  /\ UNCHANGED navFrame

\* ------------------------------------------------------------ lens presets
\* LENS_PRESETS, the six-preset table the viewer's "Lens shortcuts (1-6)"
\* goes with.  FOV in tenths of a degree; shortcut '1'..'6' as the digit.
Preset(f, h, v, n, k) ==
  [focalLength |-> f, fovHorizontal |-> h, fovVertical |-> v, name |-> n,
   shortcut |-> k]
LENS_ORDER == <<"12mm", "24mm", "35mm", "50mm", "85mm", "135mm">>
\* faulty variant: 35mm and 50mm numbered as in the five-preset table
LENS_PRESETS_fiveLensKeys ==
  [id \in Lenses |->
     CASE id = "12mm" -> Preset(12, 1220, 900, "Fisheye", 1)
       [] id = "24mm" -> Preset(24, 841, 531, "Ultra Wide", 2)
       [] id = "35mm" -> Preset(35, 634, 378, "Wide", 2)
       [] id = "50mm" -> Preset(50, 468, 270, "Normal", 3)
       [] id = "85mm" -> Preset(85, 286, 161, "Portrait", 5)
       [] id = "135mm" -> Preset(135, 182, 102, "Telephoto", 6)]

LENS_PRESETS ==
  [id \in Lenses |->
     CASE id = "12mm" -> Preset(12, 1220, 900, "Fisheye", 1)
       [] id = "24mm" -> Preset(24, 841, 531, "Ultra Wide", 2)
       [] id = "35mm" -> Preset(35, 634, 378, "Wide", 3)
       [] id = "50mm" -> Preset(50, 468, 270, "Normal", 4)
       [] id = "85mm" -> Preset(85, 286, 161, "Portrait", 5)
       [] id = "135mm" -> Preset(135, 182, 102, "Telephoto", 6)]

\* LENS_PRESETS[lensId] as JavaScript evaluates it on an object literal: an
\* own property, else a member inherited from Object.prototype (a function
\* or object without the preset's fields), else undefined
PrototypeKeys == {"constructor", "toString"}
Undefined == Preset(0, 0, 0, NULL, 0)
Inherited(key) == Preset(0, 0, 0, key, 0)
Lookup(lensId) ==
  IF lensId \in Lenses THEN LENS_PRESETS[lensId]
  ELSE IF lensId \in PrototypeKeys THEN Inherited(lensId)
  ELSE Undefined

FallbackVertical == 270      \* || 27.0
FallbackHorizontal == 468    \* || 46.8

\* LENS_PRESETS[lensId]?.fovVertical || 27.0
getThreeFOV(lensId) ==
  IF Lookup(lensId).fovVertical # 0 THEN Lookup(lensId).fovVertical
  ELSE FallbackVertical

\* LENS_PRESETS[lensId]?.fovHorizontal || 46.8
getHorizontalFOV(lensId) ==
  IF Lookup(lensId).fovHorizontal # 0 THEN Lookup(lensId).fovHorizontal
  ELSE FallbackHorizontal

\* LENS_PRESETS[lensId] || LENS_PRESETS['50mm']
getLensPreset(lensId) ==
  IF Lookup(lensId) # Undefined THEN Lookup(lensId) ELSE LENS_PRESETS["50mm"]

\* faulty variant: a key no preset claims selects the default lens
getLensFromShortcut_default(key) ==
  IF \E id \in Lenses : LENS_PRESETS[id].shortcut = key
    THEN CHOOSE id \in Lenses : LENS_PRESETS[id].shortcut = key
    ELSE DEFAULT_LENS

\* Object.entries(LENS_PRESETS).find(([, preset]) => preset.shortcut === key)
getLensFromShortcut(key) ==
  IF \E i \in 1..Len(LENS_ORDER) : LENS_PRESETS[LENS_ORDER[i]].shortcut = key
    THEN LENS_ORDER[CHOOSE i \in 1..Len(LENS_ORDER) :
           /\ LENS_PRESETS[LENS_ORDER[i]].shortcut = key
           /\ \A j \in 1..(i - 1) : LENS_PRESETS[LENS_ORDER[j]].shortcut # key]
    ELSE NULL

\* ------------------------------------------------- store: camera actions
viewerRest == <<cameraRef, sceneBoundsRef, keysPressed, isDragging, isActive,
                loads>>

\* The viewer's effect on [selectedLens], run by the render that follows a
\* change of the lens: cameraRef.current.fov = getThreeFOV(selectedLens)
UpdateFov(cams) ==
  IF Mounted /\ HasCamera /\ selectedLens' # selectedLens
    THEN [cams EXCEPT ![cameraRef].fov = getThreeFOV(selectedLens')]
    ELSE cams

updateCameraPosition(position) == cameraPosition' = position
updateCameraRotation(rotation) == cameraRotation' = rotation
setSelectedLens(lens) == selectedLens' = lens

resetCamera ==
  /\ cameraPosition' = StoreDefaultPosition
  /\ cameraRotation' = StoreDefaultRotation
  /\ selectedLens' = DEFAULT_LENS

\* one animation frame of updateCameraState: the store mirrors the camera
updateCameraState ==
  /\ Mounted
  /\ HasCamera
  /\ updateCameraPosition(Vec(ToFixed2(Cam.position.x),
                              ToFixed2(Cam.position.y),
                              ToFixed2(Cam.position.z)))
  /\ updateCameraRotation(Vec(RadToDegFixed1(Cam.rotation.x),
                              RadToDegFixed1(Cam.rotation.y),
                              RadToDegFixed1(Cam.rotation.z)))
  /\ lastOp' = Op("poll", 0)
  /\ UNCHANGED <<sessionVars, selectedLens, overlayVars, generationVars, taskVars, snapVars, pageVars,
                 viewerVars, navSteps>>

\* CameraControls: a lens button
SetSelectedLens(lens) ==
  /\ Mounted
  /\ lens # selectedLens
  /\ setSelectedLens(lens)
  /\ cameras' = UpdateFov(cameras)
  /\ lastOp' = Op("setLens", 0)
  /\ UNCHANGED <<sessionVars, cameraStoreVars, overlayVars, generationVars, taskVars, snapVars,
                 pageVars, viewerRest, navSteps>>

\* digit keys pressed, as the digit; 0 and 7 are no preset's shortcut
DigitKeys == 0..7

\* keydown of a digit: the lens shortcut branch of handleKeyDown
handleKeyDown_lens(key) ==
  /\ Mounted
  /\ LET lens == getLensFromShortcut(key)
     IN IF lens # NULL THEN setSelectedLens(lens) ELSE UNCHANGED selectedLens
  /\ cameras' = UpdateFov(cameras)
  /\ lastOp' = Op("lensKey", key)
  /\ UNCHANGED <<sessionVars, cameraStoreVars, overlayVars, generationVars, taskVars, snapVars,
                 pageVars, viewerRest, navSteps>>

\* lens ids a caller can pass: the table's, one unknown, and names of
\* Object.prototype members
LensIds == Lenses \cup {"200mm"} \cup PrototypeKeys

\* setSelectedLens called on the store by any caller
StoreSetSelectedLens(lens) ==
  /\ lens # selectedLens
  /\ setSelectedLens(lens)
  /\ cameras' = UpdateFov(cameras)
  /\ lastOp' = Op("storeSetLens", 0)
  /\ UNCHANGED <<sessionVars, cameraStoreVars, overlayVars, generationVars, taskVars, snapVars,
                 pageVars, viewerRest, navSteps>>

\* keydown 'r': resetCamera(), then the camera is put in the photo pose
handleKeyDown_r ==
  /\ Mounted
  /\ resetCamera
  /\ cameras' = UpdateFov(IF HasCamera
                            THEN [cameras EXCEPT ![cameraRef] = InPhotoPose(@)]
                            ELSE cameras)
  /\ lastOp' = Op("resetKey", 0)
  /\ UNCHANGED <<sessionVars, overlayVars, generationVars, taskVars, snapVars, pageVars, cameraRef,
                 sceneBoundsRef, keysPressed, isDragging, isActive, loads,
                 navSteps>>

\* CameraControls: the reset button calls resetCamera alone
ResetButton ==
  /\ Mounted
  /\ resetCamera
  /\ cameras' = UpdateFov(cameras)
  /\ lastOp' = Op("resetButton", 0)
  /\ UNCHANGED <<sessionVars, overlayVars, generationVars, taskVars, snapVars, pageVars, viewerRest,
                 navSteps>>

\* resetReconstruction(), exported by the store
ResetReconstruction ==
  /\ resetReconstruction
  /\ RenderViewer
  /\ lastOp' = Op("reset", 0)
  /\ UNCHANGED <<cameraStoreVars, selectedLens, overlayVars, generationVars, taskVars, idCounter,
                 pageVars, navSteps>>

\* ------------------------------------------- store: frame generation
setGenerationProcessing ==
  /\ generationStatus' = "generating"
  /\ generationError' = NULL
  /\ generatedFrameUrl' = NULL

setGenerationCompleted(frameUrl) ==
  /\ generationStatus' = "completed"
  /\ generationError' = NULL
  /\ generatedFrameUrl' = frameUrl

setGenerationError(error) ==
  /\ generationStatus' = "error"
  /\ generationError' = error
  /\ UNCHANGED generatedFrameUrl

\* ---------------------------------------------- page: handleGenerateFrame
frameFrame == <<sessionVars, cameraStoreVars, selectedLens, overlayVars,
                snapVars, pageVars, viewerVars, taskVars, navSteps>>

\* Up to the await of aiService.generateImage.  Without a selected snapshot
\* or a source image the handler only notifies and returns.
handleGenerateFrame ==
  /\ IF getSelectedSnapshot = NoSnapshot \/ sourceKeyframeUrl = NULL
       THEN /\ lastOp # Op("generateRefused", 0)
            /\ lastOp' = Op("generateRefused", 0)
            /\ UNCHANGED generationVars
       ELSE /\ setGenerationProcessing
            /\ framePc' = "generateImage"
            /\ lastOp' = Op("generate", 0)
  /\ UNCHANGED frameFrame

\* The "Generate Frame from Snapshot" button: rendered while a scene is shown
\* and snapshots exist, disabled without a selection and while generating
ClickGenerateFrame ==
  /\ Mounted
  /\ snapshots # <<>>
  /\ selectedSnapshotId # NoId
  /\ generationStatus # "generating"
  /\ handleGenerateFrame

\* URLs in result.outputs: a provider that returns a task handle has none
OutputCounts == {0, 1}

\* aiService.generateImage resolves.  With outputs the handler goes on to
\* await addKeyframe; without, the if has no else and the handler returns.
GenerateImageResolved(outputs) ==
  /\ framePc = "generateImage"
  /\ framePc' = IF outputs > 0 THEN "addKeyframe" ELSE "done"
  /\ lastOp' = Op("imageResolved", outputs)
  /\ UNCHANGED <<generationStatus, generationError, generatedFrameUrl>>
  /\ UNCHANGED frameFrame

\* addKeyframe resolves: setGenerationCompleted(result.outputs[0])
AddKeyframeResolved ==
  /\ framePc = "addKeyframe"
  /\ setGenerationCompleted("frame1")
  /\ framePc' = "done"
  /\ lastOp' = Op("frameSaved", 0)
  /\ UNCHANGED frameFrame

\* aiService.generateImage or addKeyframe rejects: the catch block
GenerateFrameRejected(message) ==
  /\ framePc \in {"generateImage", "addKeyframe"}
  /\ setGenerationError(message)
  /\ framePc' = "done"
  /\ lastOp' = Op("frameFailed", 0)
  /\ UNCHANGED frameFrame

\* ------------------------------------------------ generation store: tasks
\* generateImage, generateVideo, generateVoice and generateLipsync follow one
\* pattern and differ in the task's type and in the service they call.
GenerationTypes == {"image", "video", "voice", "lipsync"}

maxAttempts == 2      \* pollTask's default is 60; kept small here

\* What provider.getTaskStatus can resolve with
TaskStatuses ==
  { [status |-> "processing", progress |-> 50],
    [status |-> "completed", progress |-> 100],
    [status |-> "failed", progress |-> 0] }

taskFrame == <<sessionVars, cameraStoreVars, selectedLens, overlayVars,
               generationVars, snapVars, pageVars, viewerVars, navSteps>>

ActiveIds == {activeTasks[i].id : i \in DOMAIN activeTasks}
HistoryIds == {taskHistory[i].id : i \in DOMAIN taskHistory}

\* state.activeTasks.filter((t) => t.id !== taskId)
WithoutTask(tasks, taskId) == SelectSeq(tasks, LAMBDA t : t.id # taskId)

\* state.activeTasks.map((t) => t.id === taskId ? updatedTask : t)
WithUpdatedTask(tasks, taskId, updatedTask) ==
  [i \in DOMAIN tasks |-> IF tasks[i].id = taskId THEN updatedTask ELSE tasks[i]]

\* state.activeTasks.map((t) => t.id === taskId ? { ...t, progress } : t)
WithProgress(tasks, taskId, progress) ==
  [i \in DOMAIN tasks |->
     IF tasks[i].id = taskId THEN [tasks[i] EXCEPT !.progress = progress]
     ELSE tasks[i]]

\* The record a generate* call builds from its parameters
Task(taskId, type) ==
  [id |-> taskId, type |-> type, status |-> "pending", progress |-> 0]

\* completedTask and failedTask are built from the call's own task record,
\* not from the entry of activeTasks
Finished(taskId, type, status) == [id |-> taskId, type |-> type, status |-> status]

\* the type a started call was given
TypeOf == [t \in TaskIds |-> LET pc == taskPc[t] IN pc.type]

At(t, at) == taskPc[t].at = at

\* generate*(params) up to its first await: a fresh uuid, the task appended
\* to activeTasks
StartGenerate(t, type) ==
  /\ At(t, "none")
  /\ \A u \in TaskIds : u < t => ~At(u, "none")
  /\ activeTasks' = Append(activeTasks, Task(t, type))
  /\ taskPc' = [taskPc EXCEPT ![t] = [at |-> "generate", type |-> type]]
  /\ lastOp' = Op("startGenerate", t)
  /\ UNCHANGED <<taskHistory, attempts, taskFrame>>

\* aiService.generate* resolves: the entry becomes updatedTask, polling starts
GenerateResolved(t) ==
  /\ At(t, "generate")
  /\ activeTasks' = WithUpdatedTask(activeTasks, t,
                       [Task(t, TypeOf[t]) EXCEPT !.status = "processing"])
  /\ taskPc' = [taskPc EXCEPT ![t].at = "poll"]
  /\ lastOp' = Op("generateResolved", t)
  /\ UNCHANGED <<taskHistory, attempts, taskFrame>>

\* aiService.generate* rejects: the catch block awaits the save of failedTask
GenerateRejected(t) ==
  /\ At(t, "generate")
  /\ taskPc' = [taskPc EXCEPT ![t].at = "saveFailed"]
  /\ lastOp' = Op("generateRejected", t)
  /\ UNCHANGED <<activeTasks, taskHistory, attempts, taskFrame>>

\* One round of aiService.pollTask: getTaskStatus resolves, onProgress stores
\* the progress, completed returns, failed throws, otherwise the loop waits
\* and, out of attempts, throws 'Task timed out'.
pollTask(t, status) ==
  /\ At(t, "poll")
  /\ attempts[t] < maxAttempts
  /\ activeTasks' = WithProgress(activeTasks, t, status.progress)
  /\ attempts' = [attempts EXCEPT ![t] = @ + 1]
  /\ taskPc' = [taskPc EXCEPT ![t].at =
                  CASE status.status = "completed" -> "saveCompleted"
                    [] status.status = "failed" -> "saveFailed"
                    [] attempts[t] + 1 = maxAttempts -> "saveFailed"
                    [] OTHER -> "poll"]
  /\ lastOp' = Op("pollTask", t)
  /\ UNCHANGED <<taskHistory, taskFrame>>

\* provider.getTaskStatus rejects: pollTask has no try, the error reaches
\* the catch block of generate*
pollTaskRejected(t) ==
  /\ At(t, "poll")
  /\ attempts[t] < maxAttempts
  /\ taskPc' = [taskPc EXCEPT ![t].at = "saveFailed"]
  /\ lastOp' = Op("pollRejected", t)
  /\ UNCHANGED <<activeTasks, taskHistory, attempts, taskFrame>>

\* db.saveGeneration resolves: the task leaves activeTasks and is put in
\* front of taskHistory; generate* returns completedTask or rethrows.
SaveGenerationResolved(t) ==
  /\ At(t, "saveCompleted") \/ At(t, "saveFailed")
  /\ activeTasks' = WithoutTask(activeTasks, t)
  /\ taskHistory' =
       <<Finished(t, TypeOf[t],
                  IF At(t, "saveCompleted") THEN "completed" ELSE "failed")>>
         \o taskHistory
  /\ taskPc' = [taskPc EXCEPT ![t].at =
                  IF At(t, "saveCompleted") THEN "returned" ELSE "thrown"]
  /\ lastOp' = Op("saved", t)
  /\ UNCHANGED <<attempts, taskFrame>>

\* db.saveGeneration rejects.  In the try block the error is caught and the
\* save of failedTask is awaited; in the catch block nothing catches it, so
\* generate* rejects before the set that removes the task.
SaveGenerationRejected(t) ==
  /\ At(t, "saveCompleted") \/ At(t, "saveFailed")
  /\ taskPc' = [taskPc EXCEPT ![t].at =
                  IF At(t, "saveCompleted") THEN "saveFailed" ELSE "unhandled"]
  /\ lastOp' = Op("saveRejected", t)
  /\ UNCHANGED <<activeTasks, taskHistory, attempts, taskFrame>>

cancelTask(taskId) ==
  /\ activeTasks' = WithoutTask(activeTasks, taskId)
  /\ lastOp' = Op("cancelTask", taskId)
  /\ UNCHANGED <<taskHistory, taskPc, attempts, taskFrame>>

\* cancelTask called for a task that is listed as active
CancelTask(taskId) ==
  /\ taskId \in ActiveIds
  /\ cancelTask(taskId)

\* clearAll(), exported by the store: every field back to its initial value
clearAll ==
  /\ reconstructionStatus' = "idle"
  /\ reconstructionError' = NULL
  /\ plyUrl' = NoPly
  /\ sourceKeyframeId' = NULL
  /\ sourceKeyframeUrl' = NULL
  /\ cameraPosition' = StoreDefaultPosition
  /\ cameraRotation' = StoreDefaultRotation
  /\ selectedLens' = DEFAULT_LENS
  /\ showGrid' = FALSE
  /\ showHUD' = TRUE
  /\ snapshots' = <<>>
  /\ selectedSnapshotId' = NoId
  /\ generationStatus' = "idle"
  /\ generationError' = NULL
  /\ generatedFrameUrl' = NULL

ClearAll ==
  /\ clearAll
  /\ RenderViewer
  /\ lastOp' = Op("clearAll", 0)
  /\ UNCHANGED <<idCounter, pageVars, framePc, taskVars, navSteps>>

\* ------------------------------------------------------- specifications
\* Spec: the reconstruction session.  The page's handleReconstruct, the
\* results of the calls in flight, the viewer's load steps and captures, with
\* the camera left where the load puts it.
Next ==
  \/ \E imageSource \in {"drop", "keyframe"}, droppedImage \in Images \cup {NULL} :
        handleReconstruct(imageSource, droppedImage)
  \/ \E k \in CallIds : ReconstructResolved(k)
  \/ \E k \in CallIds, message \in ErrMsgs : ReconstructRejected(k, message)
  \/ ResetReconstruction
  \/ \E k \in CallIds : LoadFetched(k)
  \/ \E k \in CallIds : LoadFailed(k)
  \/ \E k \in CallIds : LoadSceneAdded(k)
  \/ \E k \in CallIds : BoundsTimeout(k)
  \/ captureView

Spec == Init /\ [][Next]_vars

\* StoreSpec: the store's session and snapshot actions as any caller may
\* invoke them, with the viewer's load up to the scene being shown.
StoreNext ==
  \/ \E imageSource \in {"drop", "keyframe"}, droppedImage \in Images \cup {NULL} :
        handleReconstruct(imageSource, droppedImage)
  \/ \E k \in CallIds : ReconstructResolved(k)
  \/ \E k \in CallIds, message \in ErrMsgs : ReconstructRejected(k, message)
  \/ ResetReconstruction
  \/ \E k \in CallIds : LoadFetched(k)
  \/ \E k \in CallIds : LoadSceneAdded(k)
  \/ captureView
  \/ CaptureSnapshot

StoreSpec == Init /\ [][StoreNext]_vars

\* PageSpec: the reconstruction as the page's buttons allow it to be driven.
PageSubmit ==
  \E imageSource \in {"drop", "keyframe"}, droppedImage \in Images \cup {NULL} :
    \/ ClickReconstruct(imageSource, droppedImage)
    \/ ClickRetry(imageSource, droppedImage)

PageNext ==
  \/ PageSubmit
  \/ \E k \in CallIds : ReconstructResolved(k)
  \/ \E k \in CallIds, message \in ErrMsgs : ReconstructRejected(k, message)
  \/ \E k \in CallIds : LoadFetched(k)
  \/ \E k \in CallIds : LoadFailed(k)
  \/ \E k \in CallIds : LoadSceneAdded(k)
  \/ \E k \in CallIds : BoundsTimeout(k)
  \/ captureView

PageSpec == Init /\ [][PageNext]_vars

\* A scene has just been loaded: source dropped, reconstruction completed,
\* loadScene past addSplatScene with the bounds computation still pending.
SceneLoaded(sourceId, src) ==
  /\ reconstructionStatus = "completed"
  /\ reconstructionError = NULL
  /\ plyUrl = [src |-> src, call |-> 1]
  /\ sourceKeyframeId = sourceId
  /\ sourceKeyframeUrl = src
  /\ cameraPosition = StoreDefaultPosition
  /\ cameraRotation = StoreDefaultRotation
  /\ selectedLens = DEFAULT_LENS
  /\ showGrid = FALSE
  /\ showHUD = TRUE
  /\ snapshots = <<>>
  /\ selectedSnapshotId = NoId
  /\ calls = <<[pc |-> "done", src |-> src]>>
  /\ GenerationIdle
  /\ cameras = [k \in CallIds |->
                    IF k = 1 THEN InPhotoPose(ViewerCamera) ELSE NoCamera]
  /\ cameraRef = 1
  /\ sceneBoundsRef = NoBounds
  /\ keysPressed = {}
  /\ isDragging = FALSE
  /\ isActive = FALSE
  /\ loads = [k \in CallIds |-> IF k = 1 THEN "timer" ELSE "none"]
  /\ idCounter = 0
  /\ navSteps = 0
  /\ lastOp = Op("loadSceneAdded", 1)

\* NavSpec: navigation of a loaded scene.
NavInit ==
  \/ \E image \in Images : SceneLoaded("dropped-image", image)
  \/ SceneLoaded(selectedKeyframe.id, selectedKeyframe.url)

NavLenses == {DEFAULT_LENS, "85mm"}

NavNext ==
  \/ BoundsTimeout(1)
  \/ \E key \in MoveKeys : handleKeyDown_move(key)
  \/ \E key \in MoveKeys : handleKeyUp(key)
  \/ moveCamera
  \/ handleMouseDown
  \/ handleMouseUp
  \/ handleClickOutside
  \/ \E d \in LookDeltas : handleMouseMove(d[1], d[2])
  \/ \E deltaY \in WheelDeltas : handleWheel(deltaY)
  \/ \E lens \in NavLenses : SetSelectedLens(lens)
  \/ handleKeyDown_r
  \/ ResetButton

NavSpec == NavInit /\ [][NavNext]_vars

\* ResetSpec: resets of a loaded scene's camera, between height changes,
\* looks and the per-frame poll that mirrors the camera into the store.
ResetNext ==
  \/ BoundsTimeout(1)
  \/ handleMouseDown
  \/ \E d \in LookDeltas : handleMouseMove(d[1], d[2])
  \/ \E deltaY \in WheelDeltas : handleWheel(deltaY)
  \/ updateCameraState
  \/ \E lens \in NavLenses : SetSelectedLens(lens)
  \/ handleKeyDown_r
  \/ ResetButton

ResetSpec == NavInit /\ [][ResetNext]_vars

\* LensSpec: lens selection over a loaded scene, by shortcut key, by the lens
\* buttons and by callers of the store, with captures recording the lens.
LensNext ==
  \/ \E key \in DigitKeys : handleKeyDown_lens(key)
  \/ \E lens \in Lenses : SetSelectedLens(lens)
  \/ \E lens \in LensIds : StoreSetSelectedLens(lens)
  \/ captureView

LensInit == SceneLoaded("dropped-image", "img1")

LensSpec == LensInit /\ [][LensNext]_vars

\* ArchiveSpec: the life of the snapshots of a loaded scene: captures between
\* height changes and lens changes, selection, deletion and clearing,
\* and the new submission or reset that ends the scene.
ArchiveNext ==
  \/ captureView
  \/ \E id \in SnapshotIds : SelectSnapshot(id)
  \/ \E id \in SnapshotIds : DeleteSnapshot(id)
  \/ ClearSnapshots
  \/ \E lens \in NavLenses : SetSelectedLens(lens)
  \/ handleMouseDown
  \/ handleWheel(-100)
  \/ handleReconstruct("keyframe", NULL)
  \/ ResetReconstruction
  \/ ClearAll

ArchiveInit == SceneLoaded("dropped-image", "img1")

ArchiveSpec == ArchiveInit /\ [][ArchiveNext]_vars

\* FrameSpec: frame generation from the snapshots of a loaded scene, driven
\* by the page's buttons.
FrameReturns ==
  \/ \E outputs \in OutputCounts : GenerateImageResolved(outputs)
  \/ AddKeyframeResolved
  \/ \E message \in ErrMsgs : GenerateFrameRejected(message)

FrameNext ==
  \/ captureView
  \/ \E id \in SnapshotIds : SelectSnapshot(id)
  \/ \E id \in SnapshotIds : DeleteSnapshot(id)
  \/ ClickGenerateFrame
  \/ FrameReturns

FrameInit == SceneLoaded("dropped-image", "img1")

FrameSpec == FrameInit /\ [][FrameNext]_vars

\* every awaited promise of handleGenerateFrame settles
FrameLive == FrameSpec /\ WF_vars(FrameReturns)

\* TaskSpec: the generation store, its generate* calls and cancelTask.
TaskReturns(t) ==
  \/ GenerateResolved(t)
  \/ GenerateRejected(t)
  \/ \E status \in TaskStatuses : pollTask(t, status)
  \/ pollTaskRejected(t)
  \/ SaveGenerationResolved(t)
  \/ SaveGenerationRejected(t)

TaskNext ==
  \/ \E t \in TaskIds, type \in GenerationTypes : StartGenerate(t, type)
  \/ \E t \in TaskIds : TaskReturns(t)
  \/ \E taskId \in TaskIds : CancelTask(taskId)

TaskSpec == Init /\ [][TaskNext]_vars

\* every awaited promise of every generate* call settles
TaskLive == TaskSpec /\ \A t \in TaskIds : WF_vars(TaskReturns(t))

\* SnapSpec: the snapshot store over a loaded scene.
SnapInit == SceneLoaded("dropped-image", "img1")

SnapNext ==
  \/ captureView
  \/ \E id \in SnapshotIds : SelectSnapshot(id)
  \/ \E id \in SnapshotIds : DeleteSnapshot(id)
  \/ ClearSnapshots
  \/ \E lens \in NavLenses : SetSelectedLens(lens)

SnapSpec == SnapInit /\ [][SnapNext]_vars

\* ------------------------------------------------------------ properties
\* the position lies inside the recorded bounds on all three axes
WithinBounds(position) ==
  LET bounds == sceneBoundsRef
  IN /\ bounds.set
     /\ bounds.min.x <= position.x /\ position.x <= bounds.max.x
     /\ bounds.min.y <= position.y /\ position.y <= bounds.max.y
     /\ bounds.min.z <= position.z /\ position.z <= bounds.max.z

\* a coordinate as Math.max(lo, Math.min(hi, v)) leaves it: never below lo,
\* and not above hi when the interval is not empty
ClampedTo(lo, hi, v) == v >= lo /\ (lo <= hi => v <= hi)

HasSnapshot(snaps, id) == \E i \in 1..Len(snaps) : snaps[i].id = id
RemoveAt(s, i) == SubSeq(s, 1, i - 1) \o SubSeq(s, i + 1, Len(s))

LatestAwaiting == Len(calls) > 0 /\ calls[Len(calls)].pc = "awaiting"
ResultSteps == {"complete", "fail"}
ResetSteps == {"resetKey", "resetButton"}
StoreReadsDefault ==
  /\ cameraPosition = StoreDefaultPosition
  /\ cameraRotation = StoreDefaultRotation
  /\ selectedLens = DEFAULT_LENS

\* C1: a complete() or fail() that belongs to an earlier submit() than the
\* latest one has no effect on the session: status, point-cloud asset, error
\* message, source image and snapshots are what they were before the call.
C1_StaleResultIgnored ==
  [][(lastOp'.op \in ResultSteps /\ lastOp'.arg < Len(calls))
       => UNCHANGED <<sessionVars, snapshots, selectedSnapshotId>>]_vars

\* C2: while the latest submission is in flight and the status is processing,
\* the result of an earlier submission leaves the status processing, and the
\* latest submission's own completion stores the asset reconstructed from the
\* latest source image.
C2_LastSubmissionWins ==
  [][(lastOp'.op \in ResultSteps /\ reconstructionStatus = "processing"
        /\ LatestAwaiting)
       => IF lastOp'.arg < Len(calls)
            THEN reconstructionStatus' = "processing"
            ELSE reconstructionStatus' = "completed"
                   => plyUrl'.src = sourceKeyframeUrl'
                        /\ plyUrl'.call = Len(calls)]_vars

C4_PitchWithinLimit ==
  lastOp.op = "look"
    => (-PitchLimit <= Cam.rotation.x /\ Cam.rotation.x <= PitchLimit)

\* a drag has pushed the pitch to the limit
C4_Witness ==
  /\ lastOp.op = "look"
  /\ Cam.rotation.x \in {-PitchLimit, PitchLimit}

\* C5: with bounds recorded and the camera inside them, no navigation
\* operation (move, wheel, look, lens change, reset) takes the position
\* outside the bounds.
C5_NavigationStaysInBounds ==
  [][(HasCamera /\ WithinBounds(Cam.position)
        /\ lastOp'.op \in {"move", "wheel", "look", "setLens"} \cup ResetSteps)
       => WithinBounds(cameras'[cameraRef].position)]_vars

\* C6: right after a reset the store reads the default position, rotation and
\* lens, and a per-frame poll that follows the reset leaves these reads as
\* they are.
C6_ResetReadsDefault ==
  [][/\ lastOp'.op \in ResetSteps => StoreReadsDefault'
     /\ (lastOp.op \in ResetSteps /\ lastOp'.op = "poll")
          => StoreReadsDefault']_vars

\* C7: deleting the selected snapshot of a collection of N leaves nothing
\* selected and N-1 snapshots, the others in their order.
C7_DeleteSelected ==
  [][(lastOp'.op = "delete" /\ lastOp'.arg = selectedSnapshotId
        /\ HasSnapshot(snapshots, selectedSnapshotId))
       => /\ FindSnapshot(snapshots', selectedSnapshotId') = NoSnapshot
          /\ Len(snapshots') = Len(snapshots) - 1
          /\ \E i \in 1..Len(snapshots) :
               /\ snapshots[i].id = selectedSnapshotId
               /\ snapshots' = RemoveAt(snapshots, i)]_vars

\* the selected middle one of three snapshots has been deleted
C7_Witness ==
  /\ lastOp = Op("delete", 2)
  /\ selectedSnapshotId = NoId
  /\ Len(snapshots) = 2
  /\ snapshots[1].id = 1
  /\ snapshots[2].id = 3

\* C8: selecting an id that is not in the collection changes neither the
\* selection pointer nor the selected snapshot.
C8_SelectMissingNoOp ==
  [][(lastOp'.op = "select" /\ ~HasSnapshot(snapshots, lastOp'.arg))
       => /\ selectedSnapshotId' = selectedSnapshotId
          /\ FindSnapshot(snapshots', selectedSnapshotId') = getSelectedSnapshot
    ]_vars

\* C9: deleting an id that is not in the collection changes neither the
\* collection nor the selection pointer.
C9_DeleteMissingNoOp ==
  [][(lastOp'.op = "delete" /\ ~HasSnapshot(snapshots, lastOp'.arg))
       => UNCHANGED <<snapshots, selectedSnapshotId>>]_vars

\* C10: a capture appends one snapshot whose id no snapshot of the collection
\* has, selects it and records the selected lens; the earlier snapshots keep
\* their place.  The collection is always in capture order (ids ascending).
C10_CaptureAppends ==
  /\ [](\A i, j \in 1..Len(snapshots) :
          i < j => snapshots[i].id < snapshots[j].id)
  /\ [][lastOp'.op = "capture"
          => /\ Len(snapshots') = Len(snapshots) + 1
             /\ SubSeq(snapshots', 1, Len(snapshots)) = snapshots
             /\ LET new == snapshots'[Len(snapshots')]
                IN /\ ~HasSnapshot(snapshots, new.id)
                   /\ selectedSnapshotId' = new.id
                   /\ FindSnapshot(snapshots', selectedSnapshotId') = new
                   /\ new.lens = selectedLens
                   /\ new.position = Cam.position
                   /\ new.rotation = Cam.rotation]_vars

\* a second capture, taken with another lens than the first
C10_Witness ==
  /\ lastOp.op = "capture"
  /\ Len(snapshots) = 2
  /\ selectedSnapshotId = snapshots[2].id
  /\ snapshots[1].lens = DEFAULT_LENS
  /\ snapshots[2].lens = "85mm"

CaptureSteps == {"capture", "captureNull", "storeCapture"}

C12_SubmitClears ==
  [][lastOp'.op = "submit"
       => /\ reconstructionStatus' = "processing"
          /\ sourceKeyframeUrl' = calls'[lastOp'.arg].src
          /\ sourceKeyframeId' \in {"dropped-image", selectedKeyframe.id}
          /\ plyUrl' = NoPly
          /\ reconstructionError' = NULL
          /\ snapshots' = <<>>
          /\ selectedSnapshotId' = NoId
          /\ sceneBoundsRef' = NoBounds
          /\ cameraRef' = 0]_vars

\* a second submission made after a snapshot of the first scene was taken
C12_Witness ==
  /\ lastOp = Op("submit", 2)
  /\ idCounter >= 1
  /\ calls[1].pc = "done"
  /\ reconstructionStatus = "processing"
  /\ snapshots = <<>>

\* C13: a fail for the current submission sets the status to error with the
\* given message and no point-cloud asset, and changes neither the snapshots
\* nor the camera state; the step after it, unless a submit or a reset,
\* leaves the status error and the message as it is.
C13_FailKeepsMessage ==
  [][/\ (lastOp'.op = "fail" /\ lastOp'.arg = Len(calls))
          => /\ reconstructionStatus' = "error"
             /\ reconstructionError' \in ErrMsgs
             /\ plyUrl' = NoPly
             /\ UNCHANGED <<snapshots, selectedSnapshotId, cameraPosition,
                            cameraRotation, selectedLens>>
     /\ (lastOp.op = "fail" /\ lastOp.arg = Len(calls)
           /\ lastOp'.op \notin {"submit", "reset"})
          => /\ reconstructionStatus' = "error"
             /\ reconstructionError' = reconstructionError]_vars

\* C14: after a reset, from whatever status, the session is idle with no
\* point-cloud asset, no error message and no source image, the collection
\* is empty and nothing is selected.
C14_ResetClears ==
  lastOp.op = "reset"
    => /\ reconstructionStatus = "idle"
       /\ plyUrl = NoPly
       /\ reconstructionError = NULL
       /\ sourceKeyframeId = NULL
       /\ sourceKeyframeUrl = NULL
       /\ snapshots = <<>>
       /\ selectedSnapshotId = NoId
       /\ getSelectedSnapshot = NoSnapshot

\* a reset made after two snapshots were taken, with the latest call still
\* in flight
C14_Witness ==
  /\ lastOp.op = "reset"
  /\ idCounter = 2
  /\ Len(calls) = 2
  /\ calls[2].pc = "awaiting"

\* C15: the status changes only along the transitions: to processing by a
\* submit, from processing to completed by a complete, from processing to
\* error by a fail, to idle by a reset.
C15_StatusTransitions ==
  [][reconstructionStatus' # reconstructionStatus
       => \/ reconstructionStatus' = "processing" /\ lastOp'.op = "submit"
          \/ /\ reconstructionStatus = "processing"
             /\ reconstructionStatus' = "completed"
             /\ lastOp'.op = "complete"
          \/ /\ reconstructionStatus = "processing"
             /\ reconstructionStatus' = "error"
             /\ lastOp'.op = "fail"
          \/ reconstructionStatus' = "idle" /\ lastOp'.op = "reset"]_vars

\* C16: in every state with status processing a fresh submit can be started
\* from the page (as long as the model's budget of submissions lasts).
C16_ProcessingRecoverable ==
  (reconstructionStatus = "processing" /\ Len(calls) < MaxSubmits)
    => ENABLED PageSubmit

\* the preset and the two FOVs read for the selected lens are those of the
\* 50mm preset
ReadsNormalPreset(lensId) ==
  /\ getLensPreset(lensId) = LENS_PRESETS["50mm"]
  /\ getThreeFOV(lensId) = LENS_PRESETS["50mm"].fovVertical
  /\ getHorizontalFOV(lensId) = LENS_PRESETS["50mm"].fovHorizontal

\* C17: for a selected lens id that is not in the preset table, getLensPreset
\* returns the 50mm "Normal" preset and getThreeFOV and getHorizontalFOV
\* return that preset's FOVs; for an id in the table the three return the
\* id's own preset and FOVs.
C17_LookupFallsBack ==
  IF selectedLens \in Lenses
    THEN /\ getLensPreset(selectedLens) = LENS_PRESETS[selectedLens]
         /\ getThreeFOV(selectedLens) = LENS_PRESETS[selectedLens].fovVertical
         /\ getHorizontalFOV(selectedLens)
              = LENS_PRESETS[selectedLens].fovHorizontal
    ELSE /\ LENS_PRESETS["50mm"].name = "Normal"
         /\ ReadsNormalPreset(selectedLens)

\* the part of C17 that the code keeps: the two FOVs of every id outside the
\* table are the 50mm preset's, and the preset is the 50mm one unless the id
\* names a member of Object.prototype
C17_FovFallsBack ==
  selectedLens \notin Lenses
    => /\ getThreeFOV(selectedLens) = LENS_PRESETS["50mm"].fovVertical
       /\ getHorizontalFOV(selectedLens) = LENS_PRESETS["50mm"].fovHorizontal
       /\ selectedLens \notin PrototypeKeys
            => getLensPreset(selectedLens) = LENS_PRESETS["50mm"]

C19_ShortcutReverseLookup ==
  /\ \A p, q \in Lenses :
       LENS_PRESETS[p].shortcut = LENS_PRESETS[q].shortcut => p = q
  /\ \A p \in Lenses : getLensFromShortcut(LENS_PRESETS[p].shortcut) = p
  /\ [][lastOp'.op = "lensKey"
         => IF \E p \in Lenses : LENS_PRESETS[p].shortcut = lastOp'.arg
              THEN /\ selectedLens' \in Lenses
                   /\ LENS_PRESETS[selectedLens'].shortcut = lastOp'.arg
              ELSE /\ getLensFromShortcut(lastOp'.arg) = NULL
                   /\ selectedLens' = selectedLens]_vars

\* key 7, which no preset claims, was pressed last while the telephoto lens
\* was selected by its key, and the telephoto lens is still selected
C19_Witness ==
  /\ lastOp = Op("lensKey", 7)
  /\ selectedLens = "135mm"
  /\ getLensFromShortcut(6) = selectedLens

C22_FovFollowsLens ==
  (Mounted /\ HasSplatMesh) => Cam.fov = getThreeFOV(selectedLens)

\* the part of C22 that the code keeps: a step that changes the selected lens
\* while the viewer has a camera leaves the camera's FOV that of the new lens
C22_FovAfterLensChange ==
  [][(Mounted /\ HasCamera /\ selectedLens' # selectedLens)
       => Cam'.fov = getThreeFOV(selectedLens')]_vars

CaptureOps == {"capture", "storeCapture"}
RemovalOps == {"delete", "clear", "submit", "reset", "clearAll"}

\* C23: in every step, a snapshot that is in the collection before and after
\* the step has the same thumbnail, position, rotation and lens; a snapshot
\* enters the collection only in a capture step, and leaves it only in a
\* delete, clear, submit or reset step.
C23_SnapshotImmutable ==
  [][\/ snapshots' = snapshots
     \/ /\ \A i \in 1..Len(snapshots) :
             \/ \E j \in 1..Len(snapshots') : snapshots'[j] = snapshots[i]
             \/ /\ lastOp'.op \in RemovalOps
                /\ ~HasSnapshot(snapshots', snapshots[i].id)
        /\ \A j \in 1..Len(snapshots') :
             \/ \E i \in 1..Len(snapshots) : snapshots[i] = snapshots'[j]
             \/ /\ lastOp'.op \in CaptureOps
                /\ ~HasSnapshot(snapshots, snapshots'[j].id)]_vars

\* the first of two snapshots, taken at another height and with another lens
\* than the second, has just been selected again
C23_Witness ==
  /\ lastOp = Op("select", 1)
  /\ Len(snapshots) = 2
  /\ snapshots[1].id = 1
  /\ snapshots[1].position # snapshots[2].position
  /\ snapshots[1].lens # snapshots[2].lens
  /\ snapshots[1].lens # selectedLens

\* C24: the bounds in force while the viewer has a camera are those computed
\* from the point cloud of the scene that camera belongs to, never those of
\* an earlier reconstruction's scene.
C24_BoundsOfCurrentScene ==
  (Mounted /\ HasCamera /\ sceneBoundsRef.set)
    => sceneBoundsRef = PaddedBounds(BoxOf(calls[cameraRef].src))

\* C25: the selection pointer is null or the id of a snapshot in the
\* collection, so getSelectedSnapshot() is null exactly when the pointer is.
C25_SelectionNeverDangles ==
  /\ selectedSnapshotId = NoId \/ HasSnapshot(snapshots, selectedSnapshotId)
  /\ (getSelectedSnapshot = NoSnapshot) <=> (selectedSnapshotId = NoId)

\* the part of C25 that the code keeps: the pointer starts to dangle only in
\* a select step that names an id not in the collection
C25_DanglesOnlyBySelect ==
  [][(C25_SelectionNeverDangles /\ ~C25_SelectionNeverDangles')
       => lastOp'.op = "select" /\ ~HasSnapshot(snapshots, lastOp'.arg)]_vars

\* C26: plyUrl is set exactly when the status is completed, and
\* reconstructionError is set only when the status is error.
C26_AssetIffCompleted ==
  /\ (plyUrl # NoPly) <=> (reconstructionStatus = "completed")
  /\ (reconstructionError # NULL) => (reconstructionStatus = "error")

\* the second of two calls has failed after the first had ended: the status
\* is error, the message is stored, no asset is referenced
C26_Witness ==
  /\ lastOp = Op("fail", 2)
  /\ calls[1].pc = "done"
  /\ reconstructionStatus = "error"
  /\ reconstructionError # NULL
  /\ plyUrl = NoPly

\* the handleReconstruct calls that are awaiting their result
InFlight(cs) == {k \in 1..Len(cs) : cs[k].pc = "awaiting"}

\* C27: driven through the page's buttons, at most one reconstruction call
\* is in flight at any time, no submission starts while the status is
\* processing, and every completion or failure applied to the store is that
\* of the latest submission.
C27_OneRequestInFlight ==
  /\ Cardinality(InFlight(calls)) <= 1
  /\ [][/\ Cardinality(InFlight(calls')) <= 1
        /\ lastOp'.op = "submit" => reconstructionStatus # "processing"
        /\ lastOp'.op \in ResultSteps => lastOp'.arg = Len(calls)]_vars

\* the second submission, made after the first had ended, has completed
C27_Witness ==
  /\ lastOp = Op("complete", 2)
  /\ Len(calls) = 2
  /\ InFlight(calls) = {}
  /\ plyUrl.call = 2

\* C28: the recorded bounds have min <= max on every axis, and the camera's
\* position, clamped, lies within them.
C28_BoundsWellFormed ==
  sceneBoundsRef.set
    => /\ sceneBoundsRef.min.x <= sceneBoundsRef.max.x
       /\ sceneBoundsRef.min.y <= sceneBoundsRef.max.y
       /\ sceneBoundsRef.min.z <= sceneBoundsRef.max.z
       /\ HasCamera => WithinBounds(clampToSceneBounds(Cam.position))

\* C29: a frame generation that has entered status generating eventually
\* leaves it, ending in completed or error.
C29_GenerationEnds ==
  (generationStatus = "generating")
    ~> (generationStatus \in {"completed", "error"})

\* the part of C29 that the code keeps: a call that returns outputs and saves
\* the keyframe, or that fails, ends the generation
C29_EndsUnlessEmpty ==
  [][lastOp'.op \in {"frameSaved", "frameFailed"}
       => generationStatus' = (IF lastOp'.op = "frameSaved" THEN "completed"
                               ELSE "error")]_vars

TimesIn(tasks, taskId) == Cardinality({i \in DOMAIN tasks : tasks[i].id = taskId})

Settled(t) ==
  /\ t \notin ActiveIds
  /\ TimesIn(taskHistory, t) = 1
  /\ \A i \in DOMAIN taskHistory :
       taskHistory[i].id = t => taskHistory[i].status \in {"completed", "failed"}

\* C30: every task a generate* call adds to activeTasks is eventually out of
\* activeTasks and exactly once in taskHistory, completed or failed, whatever
\* the provider, the polling and the history save do and whether or not
\* cancelTask is called; and no task is ever in both lists.
C30_TaskSettles ==
  /\ [](ActiveIds \cap HistoryIds = {})
  /\ \A t \in TaskIds : (t \in ActiveIds) ~> Settled(t)

\* the part of C30 that the code keeps: no task is in both lists, none is
\* twice in either, and a call that has returned or rethrown has settled
C30_SettledWhenReturned ==
  /\ ActiveIds \cap HistoryIds = {}
  /\ \A t \in TaskIds :
       /\ TimesIn(activeTasks, t) <= 1
       /\ TimesIn(taskHistory, t) <= 1
       /\ (At(t, "returned") \/ At(t, "thrown")) => Settled(t)
       /\ t \in HistoryIds => (At(t, "returned") \/ At(t, "thrown"))

====
